---- MODULE Spec2Model ----
(***************************************************************************)
(* Bitcoin halving cycle analysis (src/app/page.tsx).                      *)
(*                                                                         *)
(* Time is counted in half days since the Unix epoch: one model unit is    *)
(* 12 h = 43 200 000 ms, so a timestamp can fall strictly inside the       *)
(* one-day tolerance of the halving lookup.  Prices are positive integers  *)
(* and every percentage is kept as an exact fraction <<num, den>> (the     *)
(* JavaScript doubles are read as exact rationals; den = 0 is the          *)
(* non-finite result of a division by zero).  null is NULL for a date or   *)
(* a price and the empty tuple NULLPCT for a percentage.                   *)
(* A date string 'yyyy-MM-dd' is its day number since the epoch (UTC).     *)
(* analyzeHalvingCycles runs synchronously, so its reads of Date.now()     *)
(* fall into one time unit: now is one wall clock reading per run.         *)
(* remote is the series the source answers with, phase the position of     *)
(* the asynchronous fetchBitcoinData (pending, resolved, rejected).        *)
(***************************************************************************)
EXTENDS Integers, Sequences, FiniteSets, TLC

VARIABLES remote, now, phase, priceData, analysis, loading, selectedCycle

vars == <<remote, now, phase, priceData, analysis, loading, selectedCycle>>

\* ------------------------------------------------------------ bounds ----
MaxLen == 3          \* samples in the fetched series, window model
MaxLenC == 4         \* samples in the fetched series, peak/crash model

\* --------------------------------------------------------- constants ----
DAY == 2             \* 24 * 60 * 60 * 1000 ms, in half days
NULL == 0 - 1        \* null (crashDate, crashPrice)
NULLPCT == <<>>      \* null (percentageFromPeak)
ALL == 0             \* the selection 'all'

HALVING_EVENTS ==
  << [date |-> 15672, blockHeight |-> 210000, cycle |-> 1],    \* 2012-11-28
     [date |-> 16991, blockHeight |-> 420000, cycle |-> 2],    \* 2016-07-09
     [date |-> 18393, blockHeight |-> 630000, cycle |-> 3],    \* 2020-05-11
     [date |-> 19833, blockHeight |-> 840000, cycle |-> 4] >>  \* 2024-04-20

NumEvents == Len(HALVING_EVENTS)

\* new Date('yyyy-MM-dd').getTime(): midnight UTC of that day
getTime(date) == date * DAY

\* format(new Date(timestamp), 'yyyy-MM-dd')
format(timestamp) == timestamp \div DAY

Abs(x) == IF x < 0 THEN 0 - x ELSE x

Min2(a, b) == IF a <= b THEN a ELSE b

\* Math.min(a, b, c)
Min3(a, b, c) == Min2(a, Min2(b, c))

\* Math.floor(num / den) for den > 0
Floor(num, den) == num \div den

\* ((end - start) / start) * 100 as an exact fraction
Pct(end, start) == <<(end - start) * 100, start>>

\* ---------------------------------------------------- fetchBitcoinData ----
\* data.prices.map(([timestamp, price]) => ({date, price, timestamp}))
formattedData(prices) ==
  [k \in 1..Len(prices) |->
     [date |-> format(prices[k][1]), price |-> prices[k][2],
      timestamp |-> prices[k][1]]]

\* ------------------------------------------------ analyzeHalvingCycles ----
halvingTimestamp(index) == getTime(HALVING_EVENTS[index].date)

\* Math.abs(d.timestamp - halvingTimestamp) < 24 * 60 * 60 * 1000
IsHalvingMatch(d, index) == Abs(d.timestamp - halvingTimestamp(index)) < DAY

\* data.find(...): position of the first match, 0 when find returns undefined
halvingPriceIndex(data, index) ==
  IF \E k \in 1..Len(data) : IsHalvingMatch(data[k], index)
  THEN CHOOSE k \in 1..Len(data) :
         /\ IsHalvingMatch(data[k], index)
         /\ \A j \in 1..(k - 1) : ~IsHalvingMatch(data[j], index)
  ELSE 0

preHalvingStart(index) == halvingTimestamp(index) - 365 * DAY

preHalvingData(data, index) ==
  SelectSeq(data, LAMBDA d : /\ d.timestamp >= preHalvingStart(index)
                             /\ d.timestamp <= halvingTimestamp(index))

postHalvingEnd(index) == halvingTimestamp(index) + 550 * DAY

nextHalvingTimestamp(index, clock) ==
  IF index + 1 <= NumEvents THEN getTime(HALVING_EVENTS[index + 1].date)
  ELSE clock

\* variant: the wall clock is left out of the bound
analysisEnd_NoNow(index, clock) ==
  IF index + 1 <= NumEvents
  THEN Min2(postHalvingEnd(index), nextHalvingTimestamp(index, clock))
  ELSE postHalvingEnd(index)

\* variant: the 550 days are left out of the bound
analysisEnd_NoEnd(index, clock) ==
  Min2(nextHalvingTimestamp(index, clock), clock)

analysisEnd(index, clock) ==
  Min3(postHalvingEnd(index), nextHalvingTimestamp(index, clock), clock)

postHalvingData(data, index, clock) ==
  SelectSeq(data, LAMBDA d : /\ d.timestamp > halvingTimestamp(index)
                             /\ d.timestamp <= analysisEnd(index, clock))

\* variant: >= instead of >, the latest sample at the maximum wins
RECURSIVE PeakScan_LastWins(_, _, _)
PeakScan_LastWins(post, i, acc) ==
  IF i >= Len(post) THEN acc
  ELSE PeakScan_LastWins(post, i + 1,
         IF post[i + 1].price >= acc.peakPrice
         THEN [peakPrice |-> post[i + 1].price,
               peakDate |-> post[i + 1].date,
               peakIndex |-> i]
         ELSE acc)

\* postHalvingData.forEach((d, i) => { if (d.price > peakPrice) ... }),
\* i is the 0-based index of the code; acc = [peakPrice, peakDate, peakIndex]
RECURSIVE PeakScan(_, _, _)
PeakScan(post, i, acc) ==
  IF i >= Len(post) THEN acc
  ELSE PeakScan(post, i + 1,
         IF post[i + 1].price > acc.peakPrice
         THEN [peakPrice |-> post[i + 1].price,
               peakDate |-> post[i + 1].date,
               peakIndex |-> i]
         ELSE acc)

\* numerator of drawdown = ((peakPrice - price) / peakPrice) * 100 over the
\* common denominator peakPrice > 0
DrawdownNum(peakPrice, price) == (peakPrice - price) * 100

\* variant: no !crashDate test, a deeper sample overwrites the crash
RECURSIVE CrashScan_Deepest(_, _, _, _)
CrashScan_Deepest(post, peakPrice, i, acc) ==
  IF i >= Len(post) THEN acc
  ELSE LET drawdown == DrawdownNum(peakPrice, post[i + 1].price) IN
       CrashScan_Deepest(post, peakPrice, i + 1,
         IF drawdown > acc.maxDrawdown
         THEN IF drawdown >= 30 * peakPrice
              THEN [crashDate |-> post[i + 1].date,
                    crashPrice |-> post[i + 1].price,
                    maxDrawdown |-> drawdown]
              ELSE [acc EXCEPT !.maxDrawdown = drawdown]
         ELSE acc)

\* variant: drawdown > 30 instead of >= 30
RECURSIVE CrashScan_Strict(_, _, _, _)
CrashScan_Strict(post, peakPrice, i, acc) ==
  IF i >= Len(post) THEN acc
  ELSE LET drawdown == DrawdownNum(peakPrice, post[i + 1].price) IN
       CrashScan_Strict(post, peakPrice, i + 1,
         IF drawdown > acc.maxDrawdown
         THEN IF drawdown > 30 * peakPrice /\ acc.crashDate = NULL
              THEN [crashDate |-> post[i + 1].date,
                    crashPrice |-> post[i + 1].price,
                    maxDrawdown |-> drawdown]
              ELSE [acc EXCEPT !.maxDrawdown = drawdown]
         ELSE acc)

\* for (let i = peakIndex; i < postHalvingData.length; i++) { ... };
\* acc = [crashDate, crashPrice, maxDrawdown], maxDrawdown as a numerator
RECURSIVE CrashScan(_, _, _, _)
CrashScan(post, peakPrice, i, acc) ==
  IF i >= Len(post) THEN acc
  ELSE LET drawdown == DrawdownNum(peakPrice, post[i + 1].price) IN
       CrashScan(post, peakPrice, i + 1,
         IF drawdown > acc.maxDrawdown
         THEN IF drawdown >= 30 * peakPrice /\ acc.crashDate = NULL
              THEN [crashDate |-> post[i + 1].date,
                    crashPrice |-> post[i + 1].price,
                    maxDrawdown |-> drawdown]
              ELSE [acc EXCEPT !.maxDrawdown = drawdown]
         ELSE acc)

\* the body of HALVING_EVENTS.forEach for an event with a halving-day sample
CycleRecord(data, index, clock) ==
  LET halving == HALVING_EVENTS[index]
      halvingPriceData == data[halvingPriceIndex(data, index)]
      pre == preHalvingData(data, index)
      startPrice == IF Len(pre) > 0 THEN pre[1].price ELSE 0
      halvingPrice == halvingPriceData.price
      post == postHalvingData(data, index, clock)
      peak == PeakScan(post, 0, [peakPrice |-> halvingPrice,
                                 peakDate |-> halving.date,
                                 peakIndex |-> 0])
      crash == CrashScan(post, peak.peakPrice, peak.peakIndex,
                         [crashDate |-> NULL, crashPrice |-> NULL,
                          maxDrawdown |-> 0])
  IN [cycle |-> halving.cycle,
      halvingDate |-> halving.date,
      preHalvingData |->
        [startDate |-> IF Len(pre) > 0 THEN pre[1].date ELSE halving.date,
         startPrice |-> startPrice,
         halvingPrice |-> halvingPrice,
         percentageGain |-> Pct(halvingPrice, startPrice),
         daysAnalyzed |-> Len(pre)],
      postHalvingData |->
        [peakDate |-> peak.peakDate,
         peakPrice |-> peak.peakPrice,
         percentageGain |-> Pct(peak.peakPrice, halvingPrice),
         crashDate |-> crash.crashDate,
         crashPrice |-> crash.crashPrice,
         percentageFromPeak |->
           IF crash.crashPrice # NULL /\ crash.crashPrice # 0
           THEN Pct(crash.crashPrice, peak.peakPrice) ELSE NULLPCT,
         daysToPeak |->
           Floor(getTime(peak.peakDate) - halvingTimestamp(index), DAY)]]

\* variant: the first event without a halving-day sample ends the loop
RECURSIVE AnalyzeFrom_StopOnMiss(_, _, _, _)
AnalyzeFrom_StopOnMiss(data, index, clock, analyses) ==
  IF index > NumEvents THEN analyses
  ELSE IF halvingPriceIndex(data, index) = 0 THEN analyses
  ELSE AnalyzeFrom_StopOnMiss(data, index + 1, clock,
         Append(analyses, CycleRecord(data, index, clock)))

\* variant: an event with an empty pre-event window is skipped as well
RECURSIVE AnalyzeFrom_SkipEmptyPre(_, _, _, _)
AnalyzeFrom_SkipEmptyPre(data, index, clock, analyses) ==
  IF index > NumEvents THEN analyses
  ELSE AnalyzeFrom_SkipEmptyPre(data, index + 1, clock,
         IF \/ halvingPriceIndex(data, index) = 0
            \/ Len(preHalvingData(data, index)) = 0
         THEN analyses
         ELSE Append(analyses, CycleRecord(data, index, clock)))

\* HALVING_EVENTS.forEach((halving, index) => ...) from event `index` on
RECURSIVE AnalyzeFrom(_, _, _, _)
AnalyzeFrom(data, index, clock, analyses) ==
  IF index > NumEvents THEN analyses
  ELSE AnalyzeFrom(data, index + 1, clock,
         IF halvingPriceIndex(data, index) = 0 THEN analyses
         ELSE Append(analyses, CycleRecord(data, index, clock)))

analyzeHalvingCycles(data, clock) == AnalyzeFrom(data, 1, clock, <<>>)

\* ------------------------------------------------------ getFilteredData ----
\* variant: endTime reaches 365 days after the halving instead of 550
getFilteredData_ShortEnd(data, selected) ==
  IF selected = ALL THEN data
  ELSE LET h == CHOOSE h \in 1..NumEvents : HALVING_EVENTS[h].cycle = selected
           startTime == halvingTimestamp(h) - 365 * DAY
           endTime == halvingTimestamp(h) + 365 * DAY
       IN SelectSeq(data, LAMBDA d : /\ d.timestamp >= startTime
                                     /\ d.timestamp <= endTime)

getFilteredData(data, selected) ==
  IF selected = ALL THEN data
  ELSE IF ~(\E h \in 1..NumEvents : HALVING_EVENTS[h].cycle = selected)
       THEN data
       ELSE LET h == CHOOSE h \in 1..NumEvents :
                       /\ HALVING_EVENTS[h].cycle = selected
                       /\ \A g \in 1..(h - 1) :
                            HALVING_EVENTS[g].cycle # selected
                startTime == halvingTimestamp(h) - 365 * DAY
                endTime == halvingTimestamp(h) + 550 * DAY
            IN SelectSeq(data, LAMBDA d : /\ d.timestamp >= startTime
                                          /\ d.timestamp <= endTime)

\* ------------------------------------------------------- the inputs ----
\* sample times of the window model.  Around the first and the last halving:
\* both sides of each edge of the pre-event window and of the 550 days, the
\* halving instant, half a day and a day after it.  Around the halvings in
\* between: the halving instant and half a day after it.
Offsets == {0 - 365 * DAY - 1, 0 - 365 * DAY, 0, 1, DAY,
            550 * DAY, 550 * DAY + 1}

WindowTimes ==
  {halvingTimestamp(i) + o : i \in {1, NumEvents}, o \in Offsets}
    \cup {halvingTimestamp(i) + o : i \in 1..NumEvents, o \in {0, 1}}

WindowPrices == {10, 20}

\* peak/crash model: samples at the last halving and on the three days after
\* it, four prices (7 is exactly 30 percent below 10, 8 is 20 percent
\* below, 5 is half)
CrashTimes ==
  {halvingTimestamp(NumEvents) + o : o \in {0, DAY, 2 * DAY, 3 * DAY}}

CrashPrices == {5, 7, 8, 10}

\* wall clock readings: a day after the last halving, and long after it
Nows == {halvingTimestamp(NumEvents) + DAY,
         halvingTimestamp(NumEvents) + 600 * DAY}

Selections == {ALL} \cup {HALVING_EVENTS[i].cycle : i \in 1..NumEvents}

\* ------------------------------------------------------- the machine ----
Init ==
  /\ remote = <<>>
  /\ now \in Nows
  /\ phase = "pending"
  /\ priceData = <<>>
  /\ analysis = <<>>
  /\ loading = TRUE
  /\ selectedCycle = ALL

\* the remote source extends its chronological series while the request is
\* in flight
SourceAppend(times, prices, maxLen) ==
  /\ phase = "pending"
  /\ Len(remote) < maxLen
  /\ \E t \in times, p \in prices :
       /\ Len(remote) > 0 => remote[Len(remote)][1] <= t
       /\ remote' = Append(remote, <<t, p>>)
  /\ UNCHANGED <<now, phase, priceData, analysis, loading, selectedCycle>>

SourceAppendW == SourceAppend(WindowTimes, WindowPrices, MaxLen)

SourceAppendC == SourceAppend(CrashTimes, CrashPrices, MaxLenC)

\* fetchBitcoinData, try branch
FetchSuccess ==
  /\ phase = "pending"
  /\ phase' = "resolved"
  /\ priceData' = formattedData(remote)
  /\ analysis' = analyzeHalvingCycles(formattedData(remote), now)
  /\ loading' = FALSE
  /\ UNCHANGED <<remote, now, selectedCycle>>

\* fetchBitcoinData, catch branch: the request is rejected or its payload is
\* malformed, so no series was delivered
FetchFail ==
  /\ phase = "pending"
  /\ remote = <<>>
  /\ phase' = "rejected"
  /\ loading' = FALSE
  /\ UNCHANGED <<remote, now, priceData, analysis, selectedCycle>>

\* onChange of the cycle <select>, rendered once loading is false
SelectCycle ==
  /\ ~loading
  /\ \E c \in Selections :
       /\ c # selectedCycle
       /\ selectedCycle' = c
  /\ UNCHANGED <<remote, now, phase, priceData, analysis, loading>>

Next == SourceAppendW \/ FetchSuccess \/ FetchFail \/ SelectCycle

Spec == Init /\ [][Next]_vars

NextC == SourceAppendC \/ FetchSuccess \/ FetchFail \/ SelectCycle

SpecC == Init /\ [][NextC]_vars

\* ============================================================ claims ====
Resolved == phase = "resolved"

Matched(i) == \E k \in 1..Len(priceData) :
                Abs(priceData[k].timestamp - HALVING_EVENTS[i].date * DAY) < DAY

EventTime(i) == HALVING_EVENTS[i].date * DAY

\* min(T + 550d, nextEventTime, now), nextEventTime = now for the last event
UpperBound(i) ==
  LET next == IF i < NumEvents THEN EventTime(i + 1) ELSE now
      a == EventTime(i) + 550 * DAY
      b == IF next <= now THEN next ELSE now
  IN IF a <= b THEN a ELSE b

InPre(d, i) == EventTime(i) - 365 * DAY <= d.timestamp /\ d.timestamp <= EventTime(i)

InPost(d, i) == EventTime(i) < d.timestamp /\ d.timestamp <= UpperBound(i)

Range(seq) == {seq[k] : k \in 1..Len(seq)}

PreWin(i) == preHalvingData(priceData, i)

PostWin(i) == postHalvingData(priceData, i, now)

\* the event index of an emitted record
EventOf(r) == CHOOSE i \in 1..NumEvents : HALVING_EVENTS[i].cycle = r.cycle

Records == Range(analysis)

\* C1: for every processed event the pre-event window holds exactly the
\* samples with T - 365d <= timestamp <= T and the post-event window exactly
\* the samples with T < timestamp <= min(T + 550d, nextEventTime, now); the
\* last event's post-event window holds no sample later than now.
C1_WindowCorrectness ==
  Resolved =>
    \A i \in 1..NumEvents : Matched(i) =>
      /\ \A d \in Range(PreWin(i)) : InPre(d, i)
      /\ \A d \in Range(PostWin(i)) : InPost(d, i) /\ d.timestamp <= now
      /\ \A d \in Range(priceData) :
           /\ InPre(d, i) => d \in Range(PreWin(i))
           /\ InPost(d, i) => d \in Range(PostWin(i))

\* the last event is processed with samples in both windows and a sample
\* inside the 550 days but later than now
C1_Witness ==
  /\ Resolved
  /\ Matched(NumEvents)
  /\ Len(PreWin(NumEvents)) > 0
  /\ Len(PostWin(NumEvents)) > 0
  /\ \E d \in Range(priceData) :
       d.timestamp > now /\ d.timestamp <= EventTime(NumEvents) + 550 * DAY

\* C5: the result holds exactly one record per event that has a sample
\* within one day of it and none for the others, in strictly ascending cycle
\* order; a skipped event leaves the records of the other events as they are
\* computed from the series alone.
C5_OneRecordPerMatchedEvent ==
  Resolved =>
    /\ \A i \in 1..NumEvents :
         Cardinality({j \in 1..Len(analysis) :
                        analysis[j].cycle = HALVING_EVENTS[i].cycle})
           = IF Matched(i) THEN 1 ELSE 0
    /\ \A j \in 1..(Len(analysis) - 1) :
         analysis[j].cycle < analysis[j + 1].cycle
    /\ \A r \in Records : r = CycleRecord(priceData, EventOf(r), now)

\* cycle 2 has no halving-day sample, cycles 1, 3 and 4 have one
C5_Witness ==
  /\ Resolved
  /\ Matched(1) /\ ~Matched(2) /\ Matched(3) /\ Matched(4)
  /\ Len(analysis) = 3

\* C6: the post-event window of an event and the pre-event window of the
\* next configured event share no sample.
C6_NoWindowOverlap ==
  Resolved =>
    \A i \in 1..(NumEvents - 1) :
      Range(PostWin(i)) \cap Range(PreWin(i + 1)) = {}

\* two consecutive events are processed, the first with a post-event sample
\* and the second with a pre-event sample
C6_Witness ==
  /\ Resolved
  /\ \E i \in 1..(NumEvents - 1) :
       /\ Matched(i) /\ Matched(i + 1)
       /\ Len(PostWin(i)) > 0
       /\ Len(PreWin(i + 1)) > 0

PreIndices(i) == {k \in 1..Len(priceData) : InPre(priceData[k], i)}

\* C8: every event with a halving-day sample gets a record, also when its
\* pre-event window is empty (startPrice = 0, daysAnalyzed = 0, startDate =
\* halving date); daysAnalyzed is the number of samples of the pre-event
\* window and startPrice the price of its first sample.
C8_EmptyPreWindow ==
  Resolved =>
    /\ \A i \in 1..NumEvents :
         Matched(i) => \E r \in Records : r.cycle = HALVING_EVENTS[i].cycle
    /\ \A r \in Records :
         LET i == EventOf(r)
             pre == r.preHalvingData
         IN /\ pre.daysAnalyzed = Cardinality(PreIndices(i))
            /\ PreIndices(i) # {} =>
                 \E k \in PreIndices(i) :
                   /\ \A j \in PreIndices(i) : k <= j
                   /\ pre.startPrice = priceData[k].price
            /\ PreIndices(i) = {} =>
                 /\ pre.startPrice = 0
                 /\ pre.daysAnalyzed = 0
                 /\ pre.startDate = r.halvingDate

\* a record with an empty pre-event window, and a record of a later event
C8_Witness ==
  /\ Resolved
  /\ \E r \in Records :
       /\ PreIndices(EventOf(r)) = {}
       /\ r.preHalvingData.daysAnalyzed = 0
       /\ \E q \in Records : q.cycle > r.cycle

\* C10: the sample that supplies halvingPrice lies in the pre-event window
\* of its event and not in the post-event window.
C10_HalvingSampleInPreOnly ==
  Resolved =>
    \A i \in 1..NumEvents : Matched(i) =>
      LET d == priceData[halvingPriceIndex(priceData, i)]
      IN /\ d.timestamp <= EventTime(i)
         /\ d \in Range(PreWin(i))
         /\ d \notin Range(PostWin(i))

\* the cycle selected in the <select>, as an event index
SelectedEvent == CHOOSE h \in 1..NumEvents :
                   HALVING_EVENTS[h].cycle = selectedCycle

InChartWindow(d, i) ==
  EventTime(i) - 365 * DAY <= d.timestamp /\ d.timestamp <= EventTime(i) + 550 * DAY

\* C9 as amended: getFilteredData returns the whole series for 'all' and,
\* for a selected cycle, in series order exactly the samples with
\* T - 365d <= timestamp <= T + 550d; these include every sample of the
\* cycle's pre-event and post-event analysis windows, and are exactly those
\* when no sample of the series is later than now; changing the selection
\* changes neither priceData nor analysis.
C9_FilterIsFixedWindow ==
  /\ [](~loading =>
          LET shown == getFilteredData(priceData, selectedCycle) IN
          IF selectedCycle = ALL THEN shown = priceData
          ELSE /\ shown = SelectSeq(priceData,
                             LAMBDA d : InChartWindow(d, SelectedEvent))
               /\ \A d \in Range(priceData) :
                    InPre(d, SelectedEvent) \/ InPost(d, SelectedEvent)
                      => d \in Range(shown)
               /\ (\A d \in Range(priceData) : d.timestamp <= now) =>
                    shown = SelectSeq(priceData,
                              LAMBDA d : \/ InPre(d, SelectedEvent)
                                         \/ InPost(d, SelectedEvent)))
  /\ [][selectedCycle' # selectedCycle =>
          priceData' = priceData /\ analysis' = analysis]_vars

\* the last cycle is selected after its analysis; the filter keeps a sample
\* later than now, which the analysis left out, and drops an older sample
C9_Witness ==
  /\ ~loading
  /\ selectedCycle = HALVING_EVENTS[NumEvents].cycle
  /\ Len(analysis) > 0
  /\ \E d \in Range(getFilteredData(priceData, selectedCycle)) :
       d.timestamp > now /\ d \notin Range(PostWin(NumEvents))
  /\ \E d \in Range(priceData) :
       d \notin Range(getFilteredData(priceData, selectedCycle))

\* C9: getFilteredData returns the whole series for 'all' and, for a
\* selected cycle, exactly the samples of that cycle's pre-event and
\* post-event analysis windows, in series order.
C9_FilterIsAnalysisWindows ==
  ~loading =>
    getFilteredData(priceData, selectedCycle) =
      IF selectedCycle = ALL THEN priceData
      ELSE SelectSeq(priceData, LAMBDA d : \/ InPre(d, SelectedEvent)
                                           \/ InPost(d, SelectedEvent))

\* the state the catch branch leaves behind
Unavailable == ~loading /\ priceData = <<>> /\ analysis = <<>>

\* C7: a failed fetch ends in a state with no results that a successful
\* fetch never ends in.
C7_FailureDistinguishable ==
  /\ phase = "rejected" => Unavailable
  /\ phase = "resolved" => ~Unavailable

\* ------------------------------------------------- peak and crash ----
\* drawdown of a price from a peak is at least 30 percent
Drawdown30(peakPrice, price) == (peakPrice - price) * 100 >= 30 * peakPrice

MaxOf(S) == CHOOSE m \in S : \A x \in S : x <= m

\* position in the post-event window from which the record's peak counts:
\* the earliest sample at the peak price, or the start of the window when
\* the peak is the halving day
PeakPos(r, post) ==
  IF \E k \in 1..Len(post) : post[k].price > r.preHalvingData.halvingPrice
  THEN CHOOSE k \in 1..Len(post) :
         /\ post[k].price = r.postHalvingData.peakPrice
         /\ \A j \in 1..(k - 1) : post[j].price # r.postHalvingData.peakPrice
  ELSE 1

\* C4: peakPrice is the maximum of halvingPrice and the post-event prices,
\* peakDate the date of the earliest post-event sample at that maximum; with
\* no post-event price above halvingPrice the peak is the halving day.
C4_PeakIsMaximum ==
  Resolved =>
    \A r \in Records :
      LET post == PostWin(EventOf(r))
          hp == r.preHalvingData.halvingPrice
          pk == r.postHalvingData
      IN /\ pk.peakPrice = MaxOf({hp} \cup {post[k].price : k \in 1..Len(post)})
         /\ IF \E k \in 1..Len(post) : post[k].price > hp
            THEN \E k \in 1..Len(post) :
                   /\ post[k].price = pk.peakPrice
                   /\ \A j \in 1..(k - 1) : post[j].price < pk.peakPrice
                   /\ pk.peakDate = post[k].date
            ELSE /\ pk.peakPrice = hp
                 /\ pk.peakDate = r.halvingDate
                 /\ pk.daysToPeak = 0

\* two post-event samples on different days tie at a peak above halvingPrice
C4_Witness ==
  /\ Resolved
  /\ \E r \in Records :
       LET post == PostWin(EventOf(r)) IN
       \E a, b \in 1..Len(post) :
         /\ a < b
         /\ post[a].date # post[b].date
         /\ post[a].price = r.postHalvingData.peakPrice
         /\ post[b].price = r.postHalvingData.peakPrice
         /\ r.postHalvingData.peakPrice > r.preHalvingData.halvingPrice

\* C3: a recorded crash is at least 30 percent below the peak, lies at or
\* after the peak sample, and is the first such sample from the peak on.
C3_CrashFirstCrossing ==
  Resolved =>
    \A r \in Records :
      LET post == PostWin(EventOf(r))
          pk == r.postHalvingData
      IN pk.crashDate # NULL =>
           /\ pk.percentageFromPeak # NULLPCT
           /\ pk.percentageFromPeak[1] <= (0 - 30) * pk.percentageFromPeak[2]
           /\ \E k \in PeakPos(r, post)..Len(post) :
                /\ post[k].date = pk.crashDate
                /\ post[k].price = pk.crashPrice
                /\ Drawdown30(pk.peakPrice, post[k].price)
                /\ \A j \in PeakPos(r, post)..(k - 1) :
                     ~Drawdown30(pk.peakPrice, post[j].price)

\* a crash is recorded after a shallower sample and before a deeper one
C3_Witness ==
  /\ Resolved
  /\ \E r \in Records :
       LET post == PostWin(EventOf(r))
           pk == r.postHalvingData
       IN /\ pk.crashDate # NULL
          /\ \E j, k, m \in 1..Len(post) :
               /\ PeakPos(r, post) <= j /\ j < k /\ k < m
               /\ post[j].price < pk.peakPrice
               /\ ~Drawdown30(pk.peakPrice, post[j].price)
               /\ post[k].price = pk.crashPrice
               /\ post[m].price < pk.crashPrice

\* C2: crashDate is null if and only if no sample of the post-event window,
\* the samples before the peak included, is 30 percent or more below the
\* reported peak.
C2_CrashNullIffNoDrawdown ==
  Resolved =>
    \A r \in Records :
      LET post == PostWin(EventOf(r))
          pk == r.postHalvingData
      IN (pk.crashDate = NULL) <=>
           ~(\E k \in 1..Len(post) : Drawdown30(pk.peakPrice, post[k].price))

\* C2 as amended: crashDate is null if and only if no sample of the
\* post-event window at or after the peak sample is 30 percent or more
\* below the reported peak.
C2_CrashNullIffNoDrawdownAfterPeak ==
  Resolved =>
    \A r \in Records :
      LET post == PostWin(EventOf(r))
          pk == r.postHalvingData
      IN (pk.crashDate = NULL) <=>
           ~(\E k \in PeakPos(r, post)..Len(post) :
               Drawdown30(pk.peakPrice, post[k].price))

\* no crash is recorded although a sample before the peak is 30 percent
\* below it
C2_Witness ==
  /\ Resolved
  /\ \E r \in Records :
       LET post == PostWin(EventOf(r))
           pk == r.postHalvingData
       IN /\ pk.crashDate = NULL
          /\ \E k \in 1..(PeakPos(r, post) - 1) :
               Drawdown30(pk.peakPrice, post[k].price)

====
